---------------------------- MODULE Spec2Model ----------------------------
(***************************************************************************)
(* Model of the Webcam Calibrator panel indicator (src/extension.js and    *)
(* src/unnamed/part_000, the build with the snapshot section).             *)
(*                                                                         *)
(* A listing text is modelled after output.split('\n') and whitespace      *)
(* tokenisation: a sequence of lines, each a sequence of tokens.  A token  *)
(* [k, v] with k = "" is the bare text v; otherwise it is the text k=v.    *)
(* A number of the listing is its sign and decimal digits, so parseInt is  *)
(* computed; the template `${control}=${value}` is built with ToString.    *)
(***************************************************************************)
EXTENDS Integers, Sequences, FiniteSets, TLC

\* ------------------------------------------------------------------ bounds
MaxLines == 3        \* lines of a listing text in ParseSpec
MaxCmds == 4         \* external commands requested during one run
MaxReloads == 2      \* calls of _loadControls during one run (the first by _init)
MaxInputs == 2       \* user input events (toggle, slider, snapshot button) during one run
MaxAbs == 4          \* |min|, |max|, |value| of a descriptor in RoundTripSpec

\* ------------------------------------------------------- program constants
V4L2_CTL_PATH == "v4l2-ctl"
DevicePath == "/dev/video0"

Brightness == "brightness"
WbAuto == "white_balance_automatic"
WbTemp == "white_balance_temperature"
Zoom == "zoom_absolute"

\* The three sliders _buildMenu creates.
SliderNames == {Brightness, WbTemp, Zoom}

BuildExtension == "extension.js"
BuildSnapshot == "part_000"
Builds == {BuildExtension, BuildSnapshot}

\* --------------------------------------------------------------- numbers
Abs(x) == IF x < 0 THEN 0 - x ELSE x
Sign(x) == IF x < 0 THEN 0 - 1 ELSE IF x > 0 THEN 1 ELSE 0

RECURSIVE GCD(_, _)
GCD(a, b) == IF b = 0 THEN a ELSE GCD(b, a % b)

\* A JavaScript number that is a quotient of integers: [n, d] in lowest
\* terms with d > 0, or d = 0 for NaN (n = 0), Infinity (1), -Infinity (-1).
NaN == [n |-> 0, d |-> 0]
Num(n, d) ==
    IF d = 0 THEN [n |-> Sign(n), d |-> 0]
    ELSE LET g == GCD(Abs(n), Abs(d))
         IN  [n |-> (Sign(d) * n) \div g, d |-> Abs(d) \div g]

IsFinite(x) == x.d > 0

\* a / b on integers, as JavaScript divides: 0/0 is NaN, x/0 is +-Infinity.
JsDiv(a, b) == Num(a, b)

\* x * r for a number x and an integer r (Infinity * 0 and NaN * r are NaN).
JsMul(x, r) ==
    IF x.d = 0 THEN [n |-> x.n * Sign(r), d |-> 0]
    ELSE Num(x.n * r, x.d)

MathFloor(x) ==
    IF x.d = 0 THEN x ELSE Num(x.n \div x.d, 1)

\* Math.round: the nearest integer, halves towards +Infinity; NaN and the
\* infinities are returned unchanged.
MathRound(x) ==
    IF x.d = 0 THEN x ELSE Num((2 * x.n + x.d) \div (2 * x.d), 1)

\* x + m for an integer m.
JsAdd(x, m) == IF x.d = 0 THEN x ELSE Num(x.n + m * x.d, x.d)

\* String(x) as the template literal formats it.
JsToString(x) ==
    IF x.d = 0
    THEN (IF x.n = 0 THEN "NaN" ELSE IF x.n > 0 THEN "Infinity" ELSE "-Infinity")
    ELSE ToString(x.n)      \* only integers are ever formatted

Leq(x, y) == x.n * y.d <= y.n * x.d     \* for finite x, y


\* ------------------------------------------------- listing text and regex
\* A token is the bare text w (k = ""), or the text k=<number> where the
\* number is an optional "-" and decimal digits, or the text k=<w> where w
\* is not a number.
W(text) == [k |-> "", w |-> text, neg |-> FALSE, digits |-> << >>]

RECURSIVE Digits(_)
Digits(n) == IF n < 10 THEN <<n>> ELSE Append(Digits(n \div 10), n % 10)

\* k=<n> as the device prints the integer n.
KV(key, n) == [k |-> key, w |-> "", neg |-> n < 0, digits |-> Digits(Abs(n))]
KVText(key, text) == [k |-> key, w |-> text, neg |-> FALSE, digits |-> << >>]

\* Bare texts made of word characters only (\w+); "(int)" and ":" are not.
WordTexts == {Brightness, WbAuto, WbTemp, Zoom, "0x00980900", "User", "Controls"}

\* -?\d+ and \d+ over the whole value of a k=... token.
IsInt(tok) == tok.k # "" /\ tok.w = "" /\ Len(tok.digits) >= 1
IsUInt(tok) == IsInt(tok) /\ ~tok.neg

RECURSIVE DigitsValue(_)
DigitsValue(ds) ==
    IF ds = << >> THEN 0
    ELSE 10 * DigitsValue(SubSeq(ds, 1, Len(ds) - 1)) + ds[Len(ds)]

\* parseInt of the text of a matched number.
parseInt(tok) == IF tok.neg THEN 0 - DigitsValue(tok.digits) ELSE DigitsValue(tok.digits)

\* The run of word characters a token ends with ("" when it ends with none):
\* what (?<name>\w+)\s+ can capture from the token, started leftmost.
WordSuffix(tok) ==
    IF tok.k = ""
    THEN (IF tok.w \in WordTexts THEN tok.w ELSE "")
    ELSE IF IsInt(tok) THEN ToString(DigitsValue(tok.digits)) ELSE ""

\* min=(-?\d+)\s+max=(-?\d+)\s+step=(\d+)\s+ at tokens j, j+1, j+2.
TripleAt(line, j) ==
    /\ j >= 1 /\ j + 2 <= Len(line)
    /\ line[j].k = "min" /\ IsInt(line[j])
    /\ line[j + 1].k = "max" /\ IsInt(line[j + 1])
    /\ line[j + 2].k = "step" /\ IsUInt(line[j + 2])

\* value=(-?\d+) at token k.
ValueAt(line, k) ==
    /\ k >= 1 /\ k <= Len(line)
    /\ line[k].k = "value" /\ IsInt(line[k])

Max(S) == CHOOSE x \in S : \A y \in S : y <= x
Min(S) == CHOOSE x \in S : \A y \in S : x <= y

\* line.trim().match(regex) with
\*   (?<name>\w+)\s+.*min=..\s+max=..\s+step=..\s+.*value=..
\* A match takes its name at a token i, the triple at j > i and the value at
\* k > j + 2.  The regex engine returns the leftmost name that has a match,
\* and for it the greedy .* choices: the last triple, then the last value.
NoMatch == [matched |-> FALSE]
RegexMatch(line) ==
    LET idx == 1..Len(line)
        Js == {j \in idx : TripleAt(line, j)}
        Ks == {k \in idx : ValueAt(line, k)}
        Ms == {m \in Js \X Ks : m[1] + 2 < m[2]}
        Is == {i \in idx : (\E m \in Ms : i < m[1]) /\ WordSuffix(line[i]) # ""}
    IN  IF Is = {} THEN NoMatch
        ELSE LET i == Min(Is)
                 j == Max({m[1] : m \in {mm \in Ms : i < mm[1]}})
                 k == Max({m[2] : m \in {mm \in Ms : mm[1] = j}})
             IN  [matched |-> TRUE,
                  name |-> WordSuffix(line[i]),
                  min |-> line[j], max |-> line[j + 1],
                  step |-> line[j + 2], value |-> line[k]]

\* this._controls[name] = {min: parseInt(min), ...}
Descriptor(m) ==
    [min |-> parseInt(m.min), max |-> parseInt(m.max),
     step |-> parseInt(m.step), value |-> parseInt(m.value)]

PutKeepFirst(tbl, name, d) ==
    IF name \in DOMAIN tbl THEN tbl
    ELSE [n \in (DOMAIN tbl) \cup {name} |-> d]

Put(tbl, name, d) ==
    [n \in (DOMAIN tbl) \cup {name} |-> IF n = name THEN d ELSE tbl[n]]

EmptyTable == << >>

\* The loop of _parseControls over lines[from..], starting from table tbl.
RECURSIVE ParseLines(_, _, _)
ParseLines(lines, from, tbl) ==
    IF from > Len(lines) THEN tbl
    ELSE LET m == RegexMatch(lines[from])
         IN  ParseLines(lines, from + 1,
                        IF m.matched THEN Put(tbl, m.name, Descriptor(m)) ELSE tbl)

ParseControlsMerge(prev, output) == ParseLines(output, 1, prev)

\* _parseControls(output) when this._controls is prev: this._controls = {}
\* and then the loop.
ParseControls(prev, output) ==
    LET reset == EmptyTable
    IN  ParseLines(output, 1, reset)


\* ---------------------------------------------------- listings of a device
IntLine(name, mn, mx, st, val) ==
    <<W(name), W("0x00980900"), W("(int)"), W(":"),
      KV("min", mn), KV("max", mx), KV("step", st), KV("default", mn),
      KV("value", val)>>

\* A boolean control as v4l2-ctl prints it: no min, max or step.
BoolLine(name, val) ==
    <<W(name), W("0x0098090c"), W("(bool)"), W(":"),
      KV("default", 1), KV("value", val)>>

HeaderLine == <<W("User"), W("Controls")>>
EmptyLine == << >>

\* "".split('\n') is [""]: the empty text is one empty line.
EmptyText == <<EmptyLine>>

TextAuto ==
    <<HeaderLine, EmptyLine,
      IntLine(Brightness, 0, 4, 1, 2),
      IntLine(WbAuto, 0, 1, 1, 1),
      IntLine(WbTemp, 2, 6, 1, 3),
      IntLine(Zoom, 0 - 2, 3, 1, 0 - 2)>>

\* A degenerate range, the switch off, a value above its maximum.
TextManual ==
    <<IntLine(Brightness, 3, 3, 0, 3),
      IntLine(WbAuto, 0, 1, 1, 0),
      BoolLine("backlight_compensation", 1),
      IntLine(Zoom, 0, 4, 1, 6)>>

\* A device without white balance controls, everything at its minimum.
TextIdle ==
    <<IntLine(Brightness, 0, 4, 1, 0),
      IntLine(Zoom, 0 - 2, 3, 1, 0 - 2)>>

DeviceListings == {TextAuto, TextManual, TextIdle}

\* What the listing command can print, with _parseControls of it.
ListingResults(prev) ==
    {[text |-> t, table |-> ParseControls(prev, t)] : t \in DeviceListings}

\* ----------------------------------------------------------------- state
VARIABLES
    build,        \* which of the two source files runs
    installed,    \* the programs Gio.Subprocess.new can start
    controls,     \* this._controls
    value,        \* value[s]: the value property of slider s
    dragging,     \* dragging[s]: the dragging property of slider s
    switchState,  \* this.whiteBalanceAutoSwitch.state
    sensitive,    \* sensitivity of this.whiteBalanceSlider (the menu item)
    preview,      \* TRUE once _takeSnapshot has styled _previewContainer
    cmds,         \* the subprocesses in flight, in the order of their starts
    device,       \* device[c]: the argument of the set command applied last to c
    issued,       \* issued[c]: the argument of the set command started last for c
    lastOk,       \* lastOk[c]: the set command started last for c has succeeded
    errors,       \* number of Main.notifyError calls so far
    started,      \* number of runCommand calls so far
    reloads,      \* number of _loadControls calls so far
    inputs,       \* number of user input events so far
    output,       \* stdout of the listing command that succeeded last
    last,         \* the step taken last: its handler, the commands it requested (new,
                  \* n of them) and the errors it reported (e)
    dragCmds,     \* dragCmds[s]: set commands started for s during its drag gesture
    reloadText    \* stdout returned to the _loadControls call made last (<< >> until
                  \* that call's listing command has succeeded)

vars == <<build, installed, controls, value, dragging, switchState, sensitive, preview,
          cmds, device, issued, lastOk, errors, started, reloads, inputs, output, last, dragCmds,
          reloadText>>

Zero == Num(0, 1)
One == Num(1, 1)

\* Positions a user gesture, key press or scroll can give a slider.
UserPositions == {Zero, Num(1, 2), One}

ControlNames == {Brightness, WbAuto, WbTemp, Zoom}

\* ---------------------------------------------------------- runCommand
ListArgv == <<V4L2_CTL_PATH, "-d", DevicePath, "-l">>

SetArg(control, text) == control \o "=" \o text
SetArgv(control, text) == <<V4L2_CTL_PATH, "-d", DevicePath, "-c", SetArg(control, text)>>

TmpDir == "/tmp"
Ffmpeg == "ffmpeg"
SnapshotArgv ==
    <<Ffmpeg, "-f", "v4l2", "-input_format", "mjpeg", "-i", DevicePath,
      "-vframes", "1", "-s", "320x240", "-y", TmpDir \o "/webcam-snapshot.jpg">>

\* A subprocess: newest tells that no later set command of ctl, or no later
\* listing command, was started.
ListCmd == [kind |-> "list", argv |-> ListArgv, ctl |-> "", num |-> NaN, newest |-> TRUE]
SnapCmd == [kind |-> "snap", argv |-> SnapshotArgv, ctl |-> "", num |-> NaN, newest |-> TRUE]

\* _setControl(control, value): the subprocess it starts (num is value).
SetControl(control, x) ==
    [kind |-> "set", argv |-> SetArgv(control, JsToString(x)), ctl |-> control,
     num |-> x, newest |-> TRUE]

\* Gio.Subprocess.new(argv) starts the process, or throws when the program
\* is not there; the rejected promise then reaches the caller's catch, which
\* reports one error, before any other event is handled.
Spawns(c) == c.argv[1] \in installed

\* A set command of control c in seq.
Sets(seq, c) == {i \in 1..Len(seq) : seq[i].kind = "set" /\ seq[i].ctl = c}

\* A listing command in seq.
Lists(seq) == {i \in 1..Len(seq) : seq[i].kind = "list"}

\* runCommand for each command of new, in order, by the step op; base is
\* what was in flight before.
Start(op, ctl, base, new) ==
    LET spawned == SelectSeq(new, Spawns)
        Older(c) == [c EXCEPT !.newest =
                       /\ c.newest
                       /\ Sets(spawned, c.ctl) = {}
                       /\ (c.kind = "list" => Lists(spawned) = {})]
        Newer(i) == [spawned[i] EXCEPT
                       !.newest = \A j \in Sets(spawned, spawned[i].ctl) : j <= i]
    IN  /\ started + Len(new) <= MaxCmds
        /\ started' = started + Len(new)
        /\ cmds' = [i \in 1..Len(base) |-> Older(base[i])]
                   \o [i \in 1..Len(spawned) |-> Newer(i)]
        /\ errors' = errors + (Len(new) - Len(spawned))
        /\ issued' = [c \in ControlNames |->
                        IF Sets(spawned, c) = {} THEN issued[c]
                        ELSE spawned[Max(Sets(spawned, c))].argv[5]]
        /\ lastOk' = [c \in ControlNames |-> lastOk[c] /\ Sets(spawned, c) = {}]
        /\ last' = [op |-> op, ctl |-> ctl, n |-> Len(new),
                    e |-> Len(new) - Len(spawned), new |-> new]
        /\ dragCmds' = [s \in SliderNames |->
                          IF dragging[s]
                          THEN dragCmds[s] + Cardinality(Sets(new, s))
                          ELSE dragCmds[s]]

\* ------------------------------------------------------------ the sliders
\* The slider's value setter: Math.max(Math.min(v, 1), 0).
SliderClamp(x) ==
    IF x.d = 0 THEN (IF x.n = 0 THEN NaN ELSE IF x.n > 0 THEN One ELSE Zero)
    ELSE IF Leq(x, Zero) THEN Zero
    ELSE IF Leq(One, x) THEN One ELSE x

\* notify::value is emitted when the stored value changes (NaN !== NaN).
Notifies(old, new) == new = NaN \/ new # old

NewValueNoMin(p, control) == MathRound(JsMul(p, control.max - control.min))

\* Math.round(value * range) + control.min
NewValue(p, control) ==
    JsAdd(MathRound(JsMul(p, control.max - control.min)), control.min)

OnNotifyValueAlways(controlName, tbl, p, isDragging) ==
    IF controlName \notin DOMAIN tbl THEN << >>
    ELSE <<SetControl(controlName, NewValue(p, tbl[controlName]))>>

OnNotifyValueNoGuard(controlName, tbl, p, isDragging) ==
    IF controlName \notin DOMAIN tbl THEN <<SetControl(controlName, NaN)>>
    ELSE IF ~isDragging
         THEN <<SetControl(controlName, NewValue(p, tbl[controlName]))>>
         ELSE << >>

\* The notify::value handler of _createSlider(controlName): the commands it
\* starts, given the table, the slider's value and its dragging property.
OnNotifyValue(controlName, tbl, p, isDragging) ==
    IF controlName \notin DOMAIN tbl THEN << >>
    ELSE IF ~isDragging
         THEN <<SetControl(controlName, NewValue(p, tbl[controlName]))>>
         ELSE << >>

\* (c.value - c.min) / (c.max - c.min)
DerivePosition(c) == JsDiv(c.value - c.min, c.max - c.min)


\* The value _updateUI leaves in slider s, and the commands the assignment
\* starts through the slider's notify::value handler.
UpdatedValue(tbl, s) ==
    IF s \in DOMAIN tbl THEN SliderClamp(DerivePosition(tbl[s])) ELSE value[s]

UpdateCmds(tbl, s) ==
    IF s \in DOMAIN tbl /\ Notifies(value[s], UpdatedValue(tbl, s))
    THEN OnNotifyValue(s, tbl, UpdatedValue(tbl, s), dragging[s])
    ELSE << >>

\* _updateUI: brightness, then the switch and the sensitivity, then the
\* white balance temperature, then the zoom.
UpdateUICmds(tbl) ==
    UpdateCmds(tbl, Brightness) \o UpdateCmds(tbl, WbTemp) \o UpdateCmds(tbl, Zoom)

UpdateUISwitch(tbl) ==
    IF WbAuto \in DOMAIN tbl THEN tbl[WbAuto].value = 1 ELSE switchState

UpdateUISensitive(tbl) ==
    IF WbAuto \in DOMAIN tbl THEN tbl[WbAuto].value = 0 ELSE sensitive

\* this.whiteBalanceSlider.setSensitive(...) of the toggled handler.
ToggledSensitive(b, state) ==
    IF b = BuildExtension THEN ~state ELSE state

Running(i, kind) ==
    /\ i \in 1..Len(cmds)
    /\ cmds[i].kind = kind

\* The callback of communicate_utf8_async has run for cmds[i].
Finish(i) == SubSeq(cmds, 1, i - 1) \o SubSeq(cmds, i + 1, Len(cmds))

NoStep == [op |-> "init", ctl |-> "", n |-> 0, e |-> 0, new |-> << >>]

\* v4l2-ctl -c name=value applies a decimal integer only (not NaN).
DeviceAccepts(c) == IsFinite(c.num)

\* ------------------------------------------------------------------ Init
\* The indicator after _init: the menu is built (switch on, sliders at 0,
\* nothing dragged, the menu item sensitive as the toolkit creates it) and
\* _loadControls has started the listing command, or failed to start it.
Init ==
    /\ build \in Builds
    /\ controls = EmptyTable
    /\ value = [s \in SliderNames |-> Zero]
    /\ dragging = [s \in SliderNames |-> FALSE]
    /\ switchState = TRUE
    /\ sensitive = TRUE
    /\ preview = FALSE
    /\ installed \in SUBSET (IF build = BuildSnapshot THEN {V4L2_CTL_PATH, Ffmpeg}
                                                       ELSE {V4L2_CTL_PATH})
    /\ cmds = SelectSeq(<<ListCmd>>, Spawns)
    /\ errors = 1 - Len(cmds)
    /\ started = 1
    /\ device = [c \in ControlNames |-> ""]
    /\ issued = [c \in ControlNames |-> ""]
    /\ lastOk = [c \in ControlNames |-> FALSE]
    /\ reloads = 1
    /\ inputs = 0
    /\ output = EmptyText
    /\ last = NoStep
    /\ dragCmds = [s \in SliderNames |-> 0]
    /\ reloadText = << >>

\* --------------------------------------------------------------- actions
\* A call of _loadControls up to its await.
LoadControls ==
    /\ reloads < MaxReloads
    /\ reloads' = reloads + 1
    /\ Start("load", "", cmds, <<ListCmd>>)
    /\ reloadText' = << >>
    /\ UNCHANGED <<build, installed, controls, value, dragging, switchState, sensitive,
                   preview, device, inputs, output>>

\* The listing command exits with status 0: _parseControls, then _updateUI.
ListDone ==
    \E i \in 1..Len(cmds), res \in ListingResults(controls) :
       /\ Running(i, "list")
       /\ output' = res.text
       /\ controls' = res.table
       /\ value' = [s \in SliderNames |-> UpdatedValue(controls', s)]
       /\ switchState' = UpdateUISwitch(controls')
       /\ sensitive' = UpdateUISensitive(controls')
       /\ Start("loadDone", "", Finish(i), UpdateUICmds(controls'))
       /\ reloadText' = IF cmds[i].newest THEN res.text ELSE reloadText
       /\ UNCHANGED <<build, installed, dragging, preview, device, reloads, inputs>>

ListFailClears ==
    \E i \in 1..Len(cmds) :
       /\ Running(i, "list")
       /\ cmds' = Finish(i)
       /\ controls' = EmptyTable
       /\ errors' = errors + 1
       /\ last' = [op |-> "loadFail", ctl |-> "", n |-> 0, e |-> 1, new |-> << >>]
       /\ UNCHANGED <<reloadText, started, issued, lastOk, build, installed, value, dragging,
                      switchState, sensitive, preview, device, reloads, inputs,
                      output, dragCmds>>

\* The listing command fails: the catch of _loadControls reports it.
ListFail ==
    \E i \in 1..Len(cmds) :
       /\ Running(i, "list")
       /\ cmds' = Finish(i)
       /\ errors' = errors + 1
       /\ last' = [op |-> "loadFail", ctl |-> "", n |-> 0, e |-> 1, new |-> << >>]
       /\ UNCHANGED <<reloadText, started, issued, lastOk, build, installed, controls, value, dragging, switchState, sensitive,
                      preview, device, reloads, inputs, output, dragCmds>>

\* The user toggles the Auto switch: the toggled handler.
Toggle ==
    /\ inputs < MaxInputs
    /\ inputs' = inputs + 1
    /\ switchState' = ~switchState
    /\ Start("toggled", WbAuto, cmds,
             <<SetControl(WbAuto, IF switchState' THEN One ELSE Zero)>>)
    /\ sensitive' = ToggledSensitive(build, switchState')
    /\ UNCHANGED <<reloadText, build, installed, controls, value, dragging, preview, device, reloads, output>>

\* An insensitive white balance slider takes no input from the user.
Usable(s) == (s = WbTemp) => sensitive

\* The user moves slider s without dragging it (key press, scroll).
SliderChange ==
    /\ inputs < MaxInputs
    /\ inputs' = inputs + 1
    /\ \E s \in SliderNames, p \in UserPositions :
       /\ Usable(s)
       /\ ~dragging[s]
       /\ Notifies(value[s], p)
       /\ value' = [value EXCEPT ![s] = p]
       /\ Start("change", s, cmds, OnNotifyValue(s, controls, p, dragging[s]))
       /\ UNCHANGED <<reloadText, build, installed, controls, dragging, switchState, sensitive, preview,
                      device, reloads, output>>

\* The user presses the handle of slider s (one pointer: one drag at a time).
DragBegin ==
    /\ inputs < MaxInputs
    /\ inputs' = inputs + 1
    /\ \E s \in SliderNames :
       /\ Usable(s)
       /\ \A t \in SliderNames : ~dragging[t]
       /\ dragging' = [dragging EXCEPT ![s] = TRUE]
       /\ dragCmds' = [dragCmds EXCEPT ![s] = 0]
       /\ last' = [op |-> "dragBegin", ctl |-> s, n |-> 0, e |-> 0, new |-> << >>]
       /\ UNCHANGED <<reloadText, started, issued, lastOk, build, installed, controls, value, switchState, sensitive, preview,
                      cmds, device, issued, lastOk, errors, started, reloads, output>>

\* The pointer moves while the handle of s is held.
DragMove ==
    /\ inputs < MaxInputs
    /\ inputs' = inputs + 1
    /\ \E s \in SliderNames, p \in UserPositions :
       /\ dragging[s]
       /\ Notifies(value[s], p)
       /\ value' = [value EXCEPT ![s] = p]
       /\ Start("dragMove", s, cmds, OnNotifyValue(s, controls, p, dragging[s]))
       /\ UNCHANGED <<reloadText, build, installed, controls, dragging, switchState, sensitive, preview,
                      device, reloads, output>>

\* The user releases the handle: the value does not change, so no handler runs.
DragEnd ==
    \E s \in SliderNames :
       /\ dragging[s]
       /\ dragging' = [dragging EXCEPT ![s] = FALSE]
       /\ last' = [op |-> "dragEnd", ctl |-> s, n |-> 0, e |-> 0, new |-> << >>]
       /\ UNCHANGED <<reloadText, started, issued, lastOk, build, installed, controls, value, switchState, sensitive, preview,
                      cmds, device, issued, lastOk, errors, started, reloads, inputs, output, dragCmds>>

SetDoneWritesBack ==
    \E i \in 1..Len(cmds) :
       /\ Running(i, "set")
       /\ DeviceAccepts(cmds[i])
       /\ cmds' = Finish(i)
       /\ device' = [device EXCEPT ![cmds[i].ctl] = cmds[i].argv[5]]
       /\ controls' = IF cmds[i].ctl \in DOMAIN controls
                      THEN [controls EXCEPT ![cmds[i].ctl].value = cmds[i].num.n]
                      ELSE controls
       /\ lastOk' = [lastOk EXCEPT ![cmds[i].ctl] = @ \/ cmds[i].newest]
       /\ last' = [op |-> "setDone", ctl |-> cmds[i].ctl, n |-> 0, e |-> 0, new |-> << >>]
       /\ UNCHANGED <<reloadText, started, issued, build, installed, value, dragging, switchState, sensitive,
                      preview, errors, reloads, inputs, output, dragCmds>>

\* A set command exits with status 0: the device has taken the value.
SetDone ==
    \E i \in 1..Len(cmds) :
       /\ Running(i, "set")
       /\ DeviceAccepts(cmds[i])
       /\ cmds' = Finish(i)
       /\ device' = [device EXCEPT ![cmds[i].ctl] = cmds[i].argv[5]]
       /\ lastOk' = [lastOk EXCEPT ![cmds[i].ctl] = @ \/ cmds[i].newest]
       /\ last' = [op |-> "setDone", ctl |-> cmds[i].ctl, n |-> 0, e |-> 0, new |-> << >>]
       /\ UNCHANGED <<reloadText, started, issued, build, installed, controls, value, dragging, switchState, sensitive,
                      preview, errors, reloads, inputs, output, dragCmds>>

SetFailRollsBack ==
    \E i \in 1..Len(cmds) :
       /\ Running(i, "set")
       /\ cmds' = Finish(i)
       /\ errors' = errors + 1
       /\ switchState' = IF cmds[i].ctl = WbAuto THEN ~switchState ELSE switchState
       /\ last' = [op |-> "setFail", ctl |-> cmds[i].ctl, n |-> 0, e |-> 1, new |-> << >>]
       /\ UNCHANGED <<reloadText, started, issued, lastOk, build, installed, controls, value, dragging, sensitive,
                      preview, device, reloads, inputs, output, dragCmds>>

\* A set command fails: the catch of _setControl reports it.
SetFail ==
    \E i \in 1..Len(cmds) :
       /\ Running(i, "set")
       /\ cmds' = Finish(i)
       /\ errors' = errors + 1
       /\ last' = [op |-> "setFail", ctl |-> cmds[i].ctl, n |-> 0, e |-> 1, new |-> << >>]
       /\ UNCHANGED <<reloadText, started, issued, lastOk, build, installed, controls, value, dragging, switchState, sensitive,
                      preview, device, reloads, inputs, output, dragCmds>>

\* The snapshot button (part_000 only): _takeSnapshot up to its await.
TakeSnapshot ==
    /\ build = BuildSnapshot
    /\ inputs < MaxInputs
    /\ inputs' = inputs + 1
    /\ Start("snapshot", "", cmds, <<SnapCmd>>)
    /\ UNCHANGED <<reloadText, build, installed, controls, value, dragging, switchState, sensitive,
                   preview, device, reloads, output>>

SnapDone ==
    \E i \in 1..Len(cmds) :
       /\ Running(i, "snap")
       /\ cmds' = Finish(i)
       /\ preview' = TRUE
       /\ last' = [op |-> "snapDone", ctl |-> "", n |-> 0, e |-> 0, new |-> << >>]
       /\ UNCHANGED <<reloadText, started, issued, lastOk, build, installed, controls, value, dragging, switchState, sensitive,
                      device, errors, reloads, inputs, output, dragCmds>>

SnapFailSilent ==
    \E i \in 1..Len(cmds) :
       /\ Running(i, "snap")
       /\ cmds' = Finish(i)
       /\ errors' = errors
       /\ last' = [op |-> "snapFail", ctl |-> "", n |-> 0, e |-> 1, new |-> << >>]
       /\ UNCHANGED <<reloadText, started, issued, lastOk, build, installed, controls, value, dragging, switchState, sensitive,
                      preview, device, reloads, inputs, output, dragCmds>>

SnapFail ==
    \E i \in 1..Len(cmds) :
       /\ Running(i, "snap")
       /\ cmds' = Finish(i)
       /\ errors' = errors + 1
       /\ last' = [op |-> "snapFail", ctl |-> "", n |-> 0, e |-> 1, new |-> << >>]
       /\ UNCHANGED <<reloadText, started, issued, lastOk, build, installed, controls, value, dragging, switchState, sensitive,
                      preview, device, reloads, inputs, output, dragCmds>>

Next ==
    \/ LoadControls
    \/ ListDone
    \/ ListFail
    \/ Toggle
    \/ SliderChange
    \/ DragBegin
    \/ DragMove
    \/ DragEnd
    \/ SetDone
    \/ SetFail
    \/ TakeSnapshot
    \/ SnapDone
    \/ SnapFail

Spec == Init /\ [][Next]_vars



\* ---------------------------------------------------------------- claims
\* C1: a toggle of the auto switch to on leaves the white balance
\* temperature input disabled and a toggle to off leaves it enabled,
\* whatever the reloads have done before.
C1_ToggleSetsInput ==
    last.op = "toggled" =>
        /\ last.new = <<SetControl(WbAuto, IF switchState THEN One ELSE Zero)>>
        /\ switchState => ~sensitive
        /\ ~switchState => sensitive

\* C2: when the listing command of a reload fails (it exits with a failure,
\* or cannot be started), the table after the step is the table before it
\* and exactly one error is reported.
C2_FailedReloadKeepsTable ==
    [][(last'.op = "loadFail" \/ (last'.op = "load" /\ Len(cmds') = Len(cmds)))
          => (controls' = controls /\ errors' = errors + 1)]_vars

C2_Witness == last.op = "loadFail" /\ controls # EmptyTable

\* C3: a value change that arrives while its slider is dragged starts no set
\* command (none during a whole drag gesture), and a change outside a drag
\* starts at most one.
C3_NoSetWhileDragging ==
    /\ \A s \in SliderNames : dragCmds[s] = 0
    /\ last.op = "dragMove" => last.n = 0
    /\ last.op = "change" => last.n <= 1

C3_Witness ==
    /\ last.op = "dragMove"
    /\ last.ctl \in DOMAIN controls
    /\ dragging[last.ctl]
    /\ V4L2_CTL_PATH \in installed

\* C4: ending a drag of a slider whose control is in the table starts one
\* set command with the value derived from the slider's final position.
C4_DragEndCommits ==
    (last.op = "dragEnd" /\ last.ctl \in DOMAIN controls) =>
        last.new = <<SetControl(last.ctl, NewValue(value[last.ctl], controls[last.ctl]))>>

\* C5: a reload requests the listing command and nothing else, also when its
\* completion updates the sliders; a commit and a toggle request one command.
C5_OneCommandEach ==
    /\ last.op = "load" => last.new = <<ListCmd>>
    /\ last.op = "loadDone" => last.n = 0
    /\ last.op = "toggled" => last.n = 1
    /\ (last.op = "change" /\ last.ctl \in DOMAIN controls) => last.n = 1

\* C6: once the set commands of a slider's control have all completed and
\* the one started last has succeeded, the device holds the value of the one
\* started last.
C6_LastWriteWins ==
    \A c \in SliderNames :
        (lastOk[c] /\ Sets(cmds, c) = {}) => device[c] = issued[c]

\* C7: every set command the notify::value handler of a slider requests
\* carries an integer within [min, max] of the control's descriptor.
InRange(x, c) == IsFinite(x) /\ x.d = 1 /\ c.min <= x.n /\ x.n <= c.max

C7_CommitWithinRange ==
    \A i \in 1..Len(last.new) :
        (last.new[i].kind = "set" /\ last.new[i].ctl \in SliderNames)
            => InRange(last.new[i].num, controls[last.new[i].ctl])

\* C8: after a reload's UI update, the slider of a control with min = max
\* is at position 0.
C8_DegenerateRangeIsZero ==
    last.op = "loadDone" =>
        \A s \in SliderNames \cap DOMAIN controls :
            controls[s].min = controls[s].max => value[s] = Zero

\* C10: a commit at position p on a control (min, max) requests
\* [tool, "-d", devicePath, "-c", "<name>=<v>"], v the integer nearest to
\* p * (max - min), halves upwards, plus min.
C10_CommitCommand ==
    (last.op = "change" /\ last.ctl \in DOMAIN controls) =>
        LET c == controls[last.ctl]
            p == value[last.ctl]
            r == c.max - c.min
        IN  \E v \in c.min..c.max :
               /\ Len(last.new) = 1
               /\ last.new[1].argv =
                     <<"v4l2-ctl", "-d", "/dev/video0", "-c",
                       last.ctl \o "=" \o ToString(v)>>
               /\ (2 * (v - c.min) - 1) * p.d <= 2 * p.n * r
               /\ 2 * p.n * r < (2 * (v - c.min) + 1) * p.d

C10_Witness ==
    /\ last.op = "change"
    /\ last.ctl = Zoom
    /\ Zoom \in DOMAIN controls
    /\ controls[Zoom].max - controls[Zoom].min = 5
    /\ value[Zoom] = Num(1, 2)
    /\ Len(cmds) > 0 /\ cmds[Len(cmds)].argv[5] = "zoom_absolute=1"

\* ------------------------------------------------ _parseControls alone
\* Lines a listing can hold: well-formed ones (a name twice, with different
\* numbers), and lines the regex does not match.
SignedStepLine ==
    <<W(Zoom), W(":"), KV("min", 0), KV("max", 4), KV("step", 0 - 1), KV("value", 2)>>
SwappedLine ==
    <<W(Zoom), W(":"), KV("max", 4), KV("min", 0), KV("step", 1), KV("value", 2)>>
BadNumberLine ==
    <<W(WbTemp), W(":"), KV("min", 2), KVText("max", "x"), KV("step", 1), KV("value", 3)>>
TrailingLine ==
    <<W(WbTemp), W("(int)"), W(":"), KV("min", 2), KV("max", 6), KV("step", 1),
      KV("default", 4), KV("value", 5), KVText("flags", "inactive"), W(":")>>

ParseLineSet ==
    {EmptyLine, HeaderLine,
     IntLine(Brightness, 0, 4, 1, 2),
     IntLine(Brightness, 0 - 2, 2, 1, 0),
     BoolLine(WbAuto, 1),
     SignedStepLine, SwappedLine, BadNumberLine, TrailingLine}

Texts(n) == UNION {[1..m -> ParseLineSet] : m \in 1..n}

InitParse ==
    /\ output \in Texts(MaxLines)
    /\ controls \in {EmptyTable, ParseControls(EmptyTable, TextAuto)}
    /\ last = NoStep
    /\ build = BuildExtension
    /\ installed = {V4L2_CTL_PATH}
    /\ value = [s \in SliderNames |-> Zero]
    /\ dragging = [s \in SliderNames |-> FALSE]
    /\ switchState = TRUE
    /\ sensitive = TRUE
    /\ preview = FALSE
    /\ cmds = << >>
    /\ errors = 0
    /\ started = 0
    /\ device = [c \in ControlNames |-> ""]
    /\ issued = [c \in ControlNames |-> ""]
    /\ lastOk = [c \in ControlNames |-> FALSE]
    /\ reloads = 0
    /\ inputs = 0
    /\ dragCmds = [s \in SliderNames |-> 0]
    /\ reloadText = << >>

\* this._parseControls(output)
ParseStep ==
    /\ last.op = "init"
    /\ controls' = ParseControls(controls, output)
    /\ last' = [op |-> "parse", ctl |-> "", n |-> 0, e |-> 0, new |-> << >>]
    /\ UNCHANGED <<reloadText, started, issued, lastOk, build, installed, value, dragging, switchState, sensitive, preview, cmds,
                   device, errors, reloads, inputs, output, dragCmds>>

NextParse == ParseStep

ParseSpec == InitParse /\ [][NextParse]_vars


\* C9: parse returns one descriptor per name of a matching line, with the
\* numbers of the last matching line of that name; a line without the four
\* tokens min, max, step, value in this order is skipped and the parse goes
\* on; the empty text gives the empty table.
HasFourTokens(line) ==
    \E a, b, c, d \in 1..Len(line) :
        /\ a < b /\ b < c /\ c < d
        /\ line[a].k = "min" /\ line[b].k = "max"
        /\ line[c].k = "step" /\ line[d].k = "value"

Matching(text) == {i \in 1..Len(text) : RegexMatch(text[i]).matched}

LastOf(text, name) == Max({i \in Matching(text) : RegexMatch(text[i]).name = name})

\* The numbers of a line, read off its tokens: the last min max step run in
\* a row, and the last value.
NumbersOf(line) ==
    LET j == Max({x \in 1..Len(line) : line[x].k = "min" /\ x + 2 <= Len(line)
                                        /\ line[x + 1].k = "max" /\ line[x + 2].k = "step"})
        k == Max({x \in 1..Len(line) : line[x].k = "value"})
    IN  [min |-> parseInt(line[j]), max |-> parseInt(line[j + 1]),
         step |-> parseInt(line[j + 2]), value |-> parseInt(line[k])]

C9_ParseTable ==
    last.op = "parse" =>
        /\ DOMAIN controls = {RegexMatch(output[i]).name : i \in Matching(output)}
        /\ \A name \in DOMAIN controls :
              controls[name] = NumbersOf(output[LastOf(output, name)])
        /\ \A i \in 1..Len(output) : ~HasFourTokens(output[i]) => i \notin Matching(output)
        /\ output = EmptyText => controls = EmptyTable

C9_Witness ==
    /\ last.op = "parse"
    /\ Len(output) = 3
    /\ Matching(output) = {1, 3}
    /\ ~HasFourTokens(output[2])
    /\ RegexMatch(output[1]).name = RegexMatch(output[3]).name
    /\ NumbersOf(output[1]) # NumbersOf(output[3])
    /\ DOMAIN controls = {Brightness}

\* C11: a successful reload leaves a table whose names are exactly the names
\* of the matching lines of the new listing, so a control the new listing
\* omits is gone; no other step removes an entry.
C11_ReloadReplacesTable ==
    [][/\ last'.op = "loadDone" =>
             DOMAIN controls' = {RegexMatch(output'[i]).name : i \in Matching(output')}
       /\ last'.op # "loadDone" => DOMAIN controls \subseteq DOMAIN controls']_vars

\* A set command of white_balance_temperature was started, so the control
\* was in the table, and the reload that has just completed omits it.
C11_Witness ==
    /\ last.op = "loadDone"
    /\ issued[WbTemp] # ""
    /\ WbTemp \notin DOMAIN controls
    /\ controls # EmptyTable

\* C12: a toggle, a slider's value change and the completion of a set
\* command, successful or not, leave the table as it was; the table changes
\* only in the step that completes a successful reload, which takes it to
\* the parse of the new listing at once.
C12_CommitKeepsTable ==
    [][/\ last'.op \in {"toggled", "change", "dragMove", "setDone", "setFail"}
             => controls' = controls
       /\ controls' # controls =>
             /\ last'.op = "loadDone"
             /\ controls' = ParseLines(output', 1, EmptyTable)]_vars

\* A set command has succeeded with a value that is not the table's.
C12_Witness ==
    /\ last.op = "setDone"
    /\ last.ctl \in DOMAIN controls
    /\ device[last.ctl] # SetArg(last.ctl, ToString(controls[last.ctl].value))

\* C13: a set command of a slider or of the switch that fails, at its exit
\* or at its start, is reported with one error, starts no other command and
\* leaves the switch, the slider values and the sensitivity of the white
\* balance temperature input as the user's interaction left them.
C13_FailedSetKeepsUI ==
    [][/\ last'.op = "setFail" =>
             /\ errors' = errors + 1
             /\ started' = started
             /\ Len(cmds') = Len(cmds) - 1
             /\ switchState' = switchState
             /\ value' = value
             /\ sensitive' = sensitive
       /\ (last'.op \in {"toggled", "change"} /\ last'.e > 0) =>
             /\ errors' = errors + 1
             /\ started' = started + 1
             /\ cmds' = cmds
             /\ last'.op = "toggled" => switchState' = ~switchState
             /\ last'.op = "change" => value'[last'.ctl] # value[last'.ctl]]_vars

\* The user has switched Auto off, the set command has failed, and the
\* switch still shows off.
C13_Witness ==
    /\ last.op = "setFail"
    /\ last.ctl = WbAuto
    /\ ~switchState
    /\ issued[WbAuto] = SetArg(WbAuto, "0")

\* C14: a value change of a slider whose control is not in the table starts
\* no command and reports no error, and the UI update of a reload leaves the
\* value of such a slider as it was.
C14_AbsentControlIgnored ==
    [][/\ (last'.op \in {"change", "dragMove"} /\ last'.ctl \notin DOMAIN controls') =>
             /\ last'.n = 0
             /\ last'.e = 0
             /\ errors' = errors
             /\ started' = started
             /\ cmds' = cmds
       /\ last'.op = "loadDone" =>
             \A s \in SliderNames \ DOMAIN controls' : value'[s] = value[s]]_vars

\* The user has moved the white balance temperature slider while its
\* control was not in the table (no set command of it was ever started), and
\* a reload whose listing omits the control has left the slider there.
C14_Witness ==
    /\ last.op = "loadDone"
    /\ controls # EmptyTable
    /\ WbTemp \notin DOMAIN controls
    /\ value[WbTemp] = Num(1, 2)
    /\ issued[WbTemp] = ""
    /\ errors = 0

\* C15: once no listing command is in flight and every command has
\* succeeded, the table is the parse of the listing returned to the
\* _loadControls call that was made last.
C15_LastReloadWins ==
    (Lists(cmds) = {} /\ errors = 0 /\ reloadText # << >>)
        => controls = ParseLines(reloadText, 1, EmptyTable)

\* C16: in every state, from _init on, the white balance temperature input
\* is sensitive exactly when the Auto switch is off.
C16_InterlockInvariant == switchState <=> ~sensitive

\* C17: no step starts a set command of white_balance_temperature and
\* leaves the Auto switch on.
C17_NoTempSetWhileAuto ==
    \A i \in 1..Len(last.new) :
        (last.new[i].kind = "set" /\ last.new[i].ctl = WbTemp) => ~switchState

\* ------------------------------- _updateUI and the handler on one slider
\* A table with one slider's descriptor, min <= max, any value.
Descriptors ==
    {[min |-> mn, max |-> mx, step |-> 1, value |-> v] :
        mn \in (0 - MaxAbs)..MaxAbs, mx \in (0 - MaxAbs)..MaxAbs, v \in (0 - MaxAbs)..MaxAbs}

InitRoundTrip ==
    /\ \E s \in SliderNames, d \in {x \in Descriptors : x.min <= x.max} :
          controls = [n \in {s} |-> d]
    /\ output = EmptyText
    /\ last = NoStep
    /\ build = BuildExtension
    /\ installed = {V4L2_CTL_PATH}
    /\ value = [s \in SliderNames |-> Zero]
    /\ dragging = [s \in SliderNames |-> FALSE]
    /\ switchState = TRUE
    /\ sensitive = TRUE
    /\ preview = FALSE
    /\ cmds = << >>
    /\ errors = 0
    /\ started = 0
    /\ device = [c \in ControlNames |-> ""]
    /\ issued = [c \in ControlNames |-> ""]
    /\ lastOk = [c \in ControlNames |-> FALSE]
    /\ reloads = 0
    /\ inputs = 0
    /\ dragCmds = [s \in SliderNames |-> 0]
    /\ reloadText = << >>

\* _updateUI assigns the slider of the table's control, and the handler runs
\* on the assigned value (the slider is not dragged).
RoundTripStep ==
    /\ last.op = "init"
    /\ \E s \in DOMAIN controls :
          /\ value' = [value EXCEPT ![s] = UpdatedValue(controls, s)]
          /\ last' = [op |-> "roundTrip", ctl |-> s,
                      n |-> Len(OnNotifyValue(s, controls, value'[s], FALSE)), e |-> 0,
                      new |-> OnNotifyValue(s, controls, value'[s], FALSE)]
    /\ UNCHANGED <<reloadText, started, issued, lastOk, build, installed, controls, dragging,
                   switchState, sensitive, preview, cmds, device, errors, reloads, inputs,
                   output, dragCmds>>

NextRoundTrip == RoundTripStep

RoundTripSpec == InitRoundTrip /\ [][NextRoundTrip]_vars

FailSteps == {"loadFail", "setFail", "snapFail"}

C19_EveryCommandEnds ==
    [][/\ last'.op \in FailSteps =>
             /\ errors' = errors + 1
             /\ Len(cmds') = Len(cmds) - 1
             /\ UNCHANGED <<controls, value, dragging, switchState, sensitive, started>>
       /\ last'.op \in {"setDone", "snapDone"} =>
             /\ errors' = errors
             /\ Len(cmds') = Len(cmds) - 1
       /\ last'.op = "loadDone" =>
             (errors' - errors) + (Len(cmds') - (Len(cmds) - 1)) = last'.n
       /\ last'.op \in {"load", "toggled", "change", "dragMove", "snapshot"} =>
             /\ (errors' - errors) + (Len(cmds') - Len(cmds)) = last'.n
             /\ errors' - errors \in 0..last'.n
       /\ (last.op \in FailSteps /\ inputs < MaxInputs /\ started < MaxCmds)
             => ENABLED Toggle]_vars

\* A command has failed, and a toggle after it has been handled and has
\* started its set command.
C19_Witness ==
    /\ last.op = "toggled"
    /\ last.e = 0
    /\ errors > 0
    /\ Len(cmds) > 0
    /\ cmds[Len(cmds)].ctl = WbAuto

=============================================================================
